---- MODULE Spec2Model ----
(***************************************************************************)
(* Stage execution engine of the offline pipeline runner                   *)
(* (src/src/pipeline_runner.py) together with the checkpointing processor  *)
(* it drives (src/bin/stage_upper.py).                                     *)
(*                                                                         *)
(* The audit trail audit_{runId}.jsonl is written by audit_log and read by  *)
(* nothing but audit_log; its hash chain is studied by itself in AuditSpec, *)
(* its entries within a run in PipeSpec.                                   *)
(*                                                                         *)
(* One stage name is modelled.  Its files are the stage state file         *)
(* state/stage_{name}.json, the progress file state/progress_{name}.json,  *)
(* the completion marker {outputDir}/.{name}.done, the ".tmp" sibling of   *)
(* each of them, and the lock file locks/{name}.lock.  Up to two executor  *)
(* processes run run_stage on that stage.                                  *)
(*                                                                         *)
(* Idealisations, stated once:                                             *)
(*  - SHA-256 is collision free: a digest is represented by the sequence   *)
(*    of parts that was hashed.                                            *)
(*  - A file's content is "absent", "trunc" (opened for writing, nothing   *)
(*    complete in it yet) or a complete document.  A write through a       *)
(*    handle puts the whole document into the file the handle refers to.   *)
(*  - Timestamps, durations and stdout/stderr texts carry no state; of a    *)
(*    backoff sleep only its length is kept, in whole seconds.             *)
(***************************************************************************)
EXTENDS Integers, Sequences, FiniteSets, TLC

VARIABLES
    cfg,          \* the stage's entry of the pipeline specification (read-only after load)
    env,          \* input files (in list order), params and processor file as they are
    disk,         \* content of the final path of each file family
    tmp,          \* content of the ".tmp" sibling of each file family
    lockHolders,  \* processes holding the exclusive flock on locks/{name}.lock
    ex,           \* per executor process: position and locals of run_stage
    okKeys,       \* history: idempotency keys of executions whose processor exited 0
    lastOkKey,    \* history: key of the last completed execution if it ended ok and nothing changed since
    budget,       \* remaining executions and disturbances
    run           \* the CLI process: position and locals of main / run_pipeline

vars == <<cfg, env, disk, tmp, lockHolders, ex, okKeys, lastOkKey, budget, run>>

(***************************************************************************)
(* Bounds of the model                                                     *)
(***************************************************************************)
MaxExecs == 3        \* run_stage executions started in one behaviour of Spec
RetryExecs == 2      \* ... of RetrySpec
ConcExecs == 2       \* ... of ConcSpec
MaxDisturb == 1      \* disturbances: changes of inputs / params / processor, operator
                     \* actions and forced terminations
MaxAttemptsCfg == 2  \* largest retry.maxAttempts configured
MaxInputSteps == 2   \* the input file has ProgressEvery * k lines, k in 1..MaxInputSteps

(***************************************************************************)
(* Program constants                                                       *)
(***************************************************************************)
ProgressEvery == 50  \* stage_upper.py: "if processed % 50 == 0"

Procs == {1, 2}
SeqProcs == {1}
Families == {"stage", "progress", "marker"}
RunFiles == {"run", "metrics", "audit"}  \* run_{id}.json, metrics_{id}.json, audit_{id}.jsonl
Missing == 0         \* an input path that does not exist
InputSizes == {ProgressEvery * k : k \in 1..MaxInputSteps}
ParamValues == {0, 1, 2}  \* the empty mapping and two non-empty ones
ErrorExit == 4       \* stage_upper.py: sys.exit(4) in the except branch
InputMissingExit == 3

Absent == [st |-> "absent", v |-> 0]
Trunc == [st |-> "trunc", v |-> 0]
Doc(v) == [st |-> "doc", v |-> v]

NoKey == <<>>
EmptyState == [key |-> NoKey, lastStatus |-> "none", attempts |-> 0, history |-> <<>>]
NoWrite == [fam |-> "none", v |-> 0]
\* main has parsed its arguments; run_pipeline has not been entered
NoRun == [pc |-> "init", state |-> "none", results |-> <<>>, exit |-> "none"]

(***************************************************************************)
(* Fingerprint                                                             *)
(***************************************************************************)
\* sha256_file: digest of the file's bytes (contents are identified by size here)
Sha256File(content) == [t |-> "sha", v |-> content]

\* get_processor_version: "v<int(mtime)>", "v0" when the file cannot be stat'ed
GetProcessorVersion(proc) ==
    IF proc.exists THEN [t |-> "ver", v |-> proc.mtime] ELSE [t |-> "ver", v |-> 0]

\* the part of the key contributed by one input path
InputPart(input) ==
    IF input # Missing THEN Sha256File(input) ELSE [t |-> "missing", v |-> 0]

\* a key that leaves the params out
ComputeIdempotencyKeyNoParams(inputs, proc, params) ==
    [k \in 1..Len(inputs) |-> InputPart(inputs[k])] \o <<GetProcessorVersion(proc)>>

\* compute_idempotency_key: one part per input in list order, the processor
\* version, the params if not empty; the parts joined with "|", then hashed
\* (no part but the last can contain "|", so the joined text determines the parts)
ComputeIdempotencyKey(inputs, proc, params) ==
    LET parts == [k \in 1..Len(inputs) |-> InputPart(inputs[k])]
                     \o <<GetProcessorVersion(proc)>>
    IN IF params # 0 THEN Append(parts, [t |-> "params", v |-> params]) ELSE parts

(***************************************************************************)
(* The offline guard                                                       *)
(* A module name is the sequence of the pieces of its text, cut so that    *)
(* every banned prefix ends at a cut ("socketserver" is "socket" then      *)
(* "server", "http.client" is "http", ".", "client"): str.startswith is    *)
(* then the prefix relation on these sequences.  A source file is the      *)
(* sequence of its import statements in the order ast.walk visits them.    *)
(***************************************************************************)
BANNED_MODULE_PREFIXES ==
    {<<"requests">>, <<"socket">>, <<"http", ".", "client">>, <<"urllib">>,
     <<"urllib", "3">>, <<"http", "x">>, <<"aio", "http">>, <<"asyncio">>}

NoModule == <<>>     \* node.module or "" of "from . import x"

\* ast.Import: "import a, b.c"
Import(names) == [form |-> "import", module |-> NoModule, names |-> names]

\* ast.ImportFrom: "from module import a, b"
ImportFrom(module, names) == [form |-> "from", module |-> module, names |-> names]

\* mod.startswith(BANNED_MODULE_PREFIXES): some member is a prefix of the text
StartsWith(mod, prefixes) ==
    \E b \in prefixes : Len(b) <= Len(mod) /\ SubSeq(mod, 1, Len(b)) = b

\* what one node adds to banned_found: every alias name of an Import that starts
\* with a banned prefix; the module of an ImportFrom if it does (the imported
\* names are not looked at)
BannedIn(node) ==
    IF node.form = "import"
    THEN SelectSeq(node.names, LAMBDA mod : StartsWith(mod, BANNED_MODULE_PREFIXES))
    ELSE IF StartsWith(node.module, BANNED_MODULE_PREFIXES) THEN <<node.module>> ELSE <<>>

\* scan_for_banned_imports: banned_found over all Import / ImportFrom nodes
RECURSIVE ScanForBannedImports(_)
ScanForBannedImports(source) ==
    IF source = <<>> THEN <<>>
    ELSE BannedIn(Head(source)) \o ScanForBannedImports(Tail(source))

\* the imports of stage_upper.py
CleanSource ==
    <<Import(<<<<"os">>>>), Import(<<<<"sys">>>>), Import(<<<<"json">>>>),
      ImportFrom(<<"pathlib">>, <<<<"Path">>>>)>>

\* a processor that also has "import socket"
SocketSource == Append(CleanSource, Import(<<<<"socket">>>>))

(***************************************************************************)
(* JSON documents                                                          *)
(* A Python value carries its type: int, str, None, list, tuple, or dict   *)
(* (its items in insertion order).  A JSON text is represented by its      *)
(* parse tree: number, string, null, array, object.                        *)
(***************************************************************************)
PyInt(n) == [t |-> "int", v |-> n]
PyStr(s) == [t |-> "str", v |-> s]
PyNone == [t |-> "none", v |-> 0]
PyList(s) == [t |-> "list", v |-> s]
PyDict(items) == [t |-> "dict", v |-> items]
Item(k, v) == [k |-> k, v |-> v]

\* json.dump turns a dict key into a JSON string: a str stays, an int becomes its digits
JsonKey(k) == IF k.t = "str" THEN k.v ELSE <<"digits", k.v>>

\* json.dump(data, f, ensure_ascii=False, indent=2): lists and tuples both become
\* arrays, dicts become objects whose names are strings
RECURSIVE JsonDump(_)
JsonDump(x) ==
    CASE x.t = "int" -> [j |-> "number", v |-> x.v]
      [] x.t = "str" -> [j |-> "string", v |-> x.v]
      [] x.t = "none" -> [j |-> "null", v |-> 0]
      [] x.t \in {"list", "tuple"} ->
           [j |-> "array", v |-> [i \in 1..Len(x.v) |-> JsonDump(x.v[i])]]
      [] x.t = "dict" ->
           [j |-> "object",
            v |-> [i \in 1..Len(x.v) |-> Item(JsonKey(x.v[i].k), JsonDump(x.v[i].v))]]

\* json.load(f): arrays become lists, objects become dicts with str keys
RECURSIVE JsonLoad(_)
JsonLoad(doc) ==
    CASE doc.j = "number" -> PyInt(doc.v)
      [] doc.j = "string" -> PyStr(doc.v)
      [] doc.j = "null" -> PyNone
      [] doc.j = "array" -> PyList([i \in 1..Len(doc.v) |-> JsonLoad(doc.v[i])])
      [] doc.j = "object" ->
           PyDict([i \in 1..Len(doc.v) |-> Item(PyStr(doc.v[i].k), JsonLoad(doc.v[i].v))])

\* d.get(name, default) on a dict with str keys
Get(d, name, default) ==
    LET at == {i \in 1..Len(d.v) : d.v[i].k.v = name}
    IN IF at = {} THEN default ELSE d.v[CHOOSE i \in at : TRUE].v

\* attempt_info as run_stage builds it: "attempt" always, "status" once it is known
AttemptDict(h) ==
    PyDict(<<Item(PyStr("attempt"), PyInt(h.attempt))>>
           \o (IF h.status # "none" THEN <<Item(PyStr("status"), PyStr(h.status))>> ELSE <<>>))

\* a stage state dict whose history is left out
StateDictNoHistory(ss) ==
    PyDict((IF ss.lastStatus # "none"
            THEN <<Item(PyStr("lastStatus"), PyStr(ss.lastStatus)),
                   Item(PyStr("attempts"), PyInt(ss.attempts))>>
            ELSE <<>>)
           \o (IF ss.key # NoKey THEN <<Item(PyStr("idempotencyKey"), PyStr(ss.key))>>
               ELSE <<>>))

\* the dict run_stage holds in stage_state: "history" from the setdefault; lastStatus
\* and attempts once a run has set them; idempotencyKey once one has been stored
StateDict(ss) ==
    PyDict(<<Item(PyStr("history"),
                  PyList([i \in 1..Len(ss.history) |-> AttemptDict(ss.history[i])]))>>
           \o (IF ss.lastStatus # "none"
               THEN <<Item(PyStr("lastStatus"), PyStr(ss.lastStatus)),
                      Item(PyStr("attempts"), PyInt(ss.attempts))>>
               ELSE <<>>)
           \o (IF ss.key # NoKey THEN <<Item(PyStr("idempotencyKey"), PyStr(ss.key))>>
               ELSE <<>>))

\* what run_stage reads out of the loaded dict: stage_state.get("idempotencyKey"),
\* setdefault("history", []), and the fields a later save carries over
DictState(d) ==
    LET hist == Get(d, "history", PyList(<<>>)).v
    IN [key |-> Get(d, "idempotencyKey", PyStr(NoKey)).v,
        lastStatus |-> Get(d, "lastStatus", PyStr("none")).v,
        attempts |-> Get(d, "attempts", PyInt(0)).v,
        history |-> [i \in 1..Len(hist) |->
                       [attempt |-> Get(hist[i], "attempt", PyInt(0)).v,
                        status |-> Get(hist[i], "status", PyStr("none")).v]]]

\* the text save_stage_state(name, data) puts into stage_{name}.json
SaveStageState(ss) == JsonDump(StateDict(ss))

\* load_stage_state on a file holding a complete document
LoadStageStateDoc(doc) == DictState(JsonLoad(doc))

\* write_checkpoint and save_progress: {"lineOffset": line_offset}
WriteCheckpoint(line_offset) ==
    JsonDump(PyDict(<<Item(PyStr("lineOffset"), PyInt(line_offset))>>))

(***************************************************************************)
(* Reading files                                                           *)
(***************************************************************************)
Exists(f) == f.st # "absent"

\* read_checkpoint: int(data.get("lineOffset", 0)); 0 when the file is missing,
\* cannot be parsed, or does not hold an object
ReadCheckpoint(f) ==
    IF f.st # "doc" THEN 0
    ELSE LET data == JsonLoad(f.v)
         IN IF data.t = "dict" THEN Get(data, "lineOffset", PyInt(0)).v ELSE 0

\* a retry decision that ignores retryableExitCodes
ShouldRetryAnyCode(attempts, exit_code) == attempts < cfg.maxAttempts

\* should_retry (the closure of run_stage)
ShouldRetry(attempts, exit_code) ==
    IF attempts >= cfg.maxAttempts THEN FALSE
    ELSE IF cfg.retryable # {} THEN exit_code \in cfg.retryable
    ELSE TRUE

\* the counter is not advanced
NextAttemptStuck(attempts) == attempts

\* "attempts += 1" at the head of the retry loop
NextAttempt(attempts) == attempts + 1

\* a lock that is granted whoever holds it
CanLockAlways(holders) == TRUE

\* flock(LOCK_EX) / msvcrt.locking(LK_LOCK) is granted only when nobody holds the lock
CanLock(holders) == holders = {}

(***************************************************************************)
(* audit_log: the hash-chained audit trail                                 *)
(***************************************************************************)
TailBytes == 4096    \* audit_log: f.seek(max(0, size - 4096))

AuditEvents == {"run_start", "start", "fail", "skip", "done", "run_end"}
\* bytes of the line written for an entry, newline included; the message (for
\* "fail" the stderr of the processor) can have any length
LineLens == {TailBytes - 1, TailBytes, TailBytes + 1}

NoHash == <<>>       \* prev_hash = ""

\* hashlib.sha256((prev_hash + json.dumps(entry, sort_keys=True)).encode()).hexdigest()
ChainHash(prev_hash, body) == [t |-> "chain", prev |-> prev_hash, body |-> body]

RECURSIVE FileSize(_)
FileSize(lines) == IF lines = <<>> THEN 0 ELSE Head(lines).len + FileSize(Tail(lines))

\* The tail of the file is read from offset max(0, size - 4096) and its last line
\* is parsed.  When the read starts inside the last line, json.loads raises on the
\* fragment and the except branch leaves prev_hash = "".
ReadPrevHash(f) ==
    IF ~Exists(f) \/ FileSize(f.v) = 0 THEN NoHash
    ELSE LET size == FileSize(f.v)
             start == IF size - TailBytes > 0 THEN size - TailBytes ELSE 0
             last == f.v[Len(f.v)]
         IN IF start <= size - last.len THEN last.hash ELSE NoHash

\* the line appended by audit_log(run_id, stage, event, message, extra)
AuditEntry(f, event, message, len) ==
    LET prev_hash == ReadPrevHash(f)
        body == [event |-> event, message |-> message, len |-> len]
    IN [len |-> len, body |-> body, hash |-> ChainHash(prev_hash, body), prevHash |-> prev_hash]

\* open(audit_path, "a") and the write of one line
AuditAppend(f, event, message, len) ==
    Doc(Append(IF Exists(f) THEN f.v ELSE <<>>, AuditEntry(f, event, message, len)))

\* audit_log as run_stage calls it.  The audit file belongs to the run: it is kept for
\* the stage executions of a run_pipeline call; where run_stage is studied by itself
\* the audit file of its run id is left out.
StageAudit(d, event, message) ==
    IF run.pc = "init" THEN d
    ELSE [d EXCEPT !["audit"] = AuditAppend(@, event, message, TailBytes - 1)]


AuditLines == IF Exists(disk["audit"]) THEN disk["audit"].v ELSE <<>>

(***************************************************************************)
(* Executor locals                                                         *)
(***************************************************************************)
\* the backoff sleeps of this execution: how many, and the last one's two parts
NoDelay == [n |-> 0, base |-> 0, jitter |-> 0]

NoPre == [key |-> NoKey, marker |-> FALSE, stable |-> NoKey, fresh |-> NoKey]

IdleEx ==
    [pc |-> "idle", stage_state |-> EmptyState, idem_key |-> NoKey, line_offset |-> 0,
     attempts |-> 0, status |-> "failed", rc |-> 0, raising |-> FALSE, cont |-> "break",
     aw |-> NoWrite, awAt |-> "none", awNext |-> "none",
     poff |-> 0, processed |-> 0, pphase |-> "none", pT |-> 0,
     astatus |-> "none", invocations |-> 0, pre |-> NoPre, cpAtSpawn |-> 0, waited |-> FALSE,
     result |-> "none", delay |-> NoDelay]

\* run_stage has ended: it returned result, or an exception left it ("raised")
Ended(e, result) ==
    [IdleEx EXCEPT !.pc = "done", !.result = result, !.idem_key = e.idem_key,
                   !.invocations = e.invocations, !.pre = e.pre, !.waited = e.waited,
                   !.attempts = e.attempts]

StoredKey == IF disk["stage"].st = "doc" THEN LoadStageStateDoc(disk["stage"].v).key ELSE NoKey

\* The stage entries explored.  Each specification below draws the entry once; the
\* pipeline specification is read-only after load.
IdemConfigs ==
    [idem : BOOLEAN, checkpoint : {FALSE}, useLock : {TRUE}, offlineGuard : BOOLEAN,
     maxAttempts : 1..MaxAttemptsCfg, retryable : {{}}, os : {"posix"},
     baseDelay : {1}, maxDelay : {30}, jitter : {0}]

RetryConfigs ==
    [idem : {TRUE}, checkpoint : BOOLEAN, useLock : {TRUE}, offlineGuard : {FALSE},
     maxAttempts : 1..MaxAttemptsCfg, retryable : {{}, {ErrorExit}}, os : {"posix"},
     baseDelay : {1}, maxDelay : {30}, jitter : {0}]

\* (the platform matters only to FileLock)
ConcConfigs ==
    {c \in [idem : {TRUE}, checkpoint : {TRUE}, useLock : BOOLEAN, offlineGuard : {FALSE},
            maxAttempts : {1}, retryable : {{}}, os : {"posix", "nt"},
            baseDelay : {1}, maxDelay : {30}, jitter : {0}] :
        c.useLock \/ c.os = "posix"}

\* The state after construction: a fresh working tree, the input file of one
\* checkpoint interval, empty params, an unmodified processor.
InitWith(configs, execs) ==
    /\ cfg \in configs
    /\ env = [inputs |-> <<ProgressEvery>>, params |-> 0,
              proc |-> [exists |-> TRUE, mtime |-> 1, source |-> CleanSource]]
    /\ disk = [f \in Families \cup RunFiles |-> Absent]
    /\ tmp = [f \in Families |-> Absent]
    /\ lockHolders = {}
    /\ ex = [p \in Procs |-> IdleEx]
    /\ okKeys = {}
    /\ lastOkKey = NoKey
    /\ budget = [execs |-> execs, disturb |-> MaxDisturb]
    /\ run = NoRun

Init == InitWith(IdemConfigs, MaxExecs)

(***************************************************************************)
(* run_stage: planning                                                     *)
(***************************************************************************)
Upd(p, e) == ex' = [ex EXCEPT ![p] = e]

\* A caller enters run_stage(stage, run_id); the history variable pre records
\* what is on disk at that moment.
Start(p) ==
    /\ ex[p].pc = "idle"
    /\ budget.execs > 0
    /\ budget' = [budget EXCEPT !.execs = @ - 1]
    /\ Upd(p, [IdleEx EXCEPT !.pc = "load",
                 !.pre = [key |-> StoredKey, marker |-> Exists(disk["marker"]),
                          stable |-> lastOkKey,
                          fresh |-> ComputeIdempotencyKey(env.inputs, env.proc, env.params)]])
    /\ UNCHANGED <<run, cfg, env, disk, tmp, lockHolders, okKeys, lastOkKey>>

\* os.makedirs(output_dir); stage_state = load_stage_state(name); setdefault("history", [])
\* json.load raises on a file that holds no complete document.
LoadStageState(p) ==
    /\ ex[p].pc = "load"
    /\ Upd(p, CASE disk["stage"].st = "absent" ->
                     [ex[p] EXCEPT !.pc = "guard", !.stage_state = EmptyState]
                [] disk["stage"].st = "doc" ->
                     [ex[p] EXCEPT !.pc = "guard", !.stage_state = LoadStageStateDoc(disk["stage"].v)]
                [] OTHER -> Ended(ex[p], "raised"))
    /\ UNCHANGED <<run, cfg, env, disk, tmp, lockHolders, okKeys, lastOkKey, budget>>

\* a scan that finds nothing
GuardViolationNever(proc) == FALSE

\* enforce_offline_guard raises: scan_for_banned_imports cannot open the processor
\* file, or it returns a non-empty list
GuardViolation(proc) == (~proc.exists) \/ ScanForBannedImports(proc.source) # <<>>

\* if offline_guard: enforce_offline_guard(processor)  -- raises out of run_stage
EnforceOfflineGuard(p) ==
    /\ ex[p].pc = "guard"
    /\ Upd(p, IF cfg.offlineGuard /\ GuardViolation(env.proc)
              THEN Ended(ex[p], "raised")
              ELSE [ex[p] EXCEPT !.pc = "plan"])
    /\ UNCHANGED <<run, cfg, env, disk, tmp, lockHolders, okKeys, lastOkKey, budget>>

\* a skip decision that does not look at the completion marker
SkipDecisionNoMarker(idem_enabled, stored_key, idem_key, marker) ==
    idem_enabled /\ stored_key = idem_key

\* the skip decision of run_stage
SkipDecision(idem_enabled, stored_key, idem_key, marker) ==
    idem_enabled /\ stored_key = idem_key /\ Exists(marker)

\* a skip that also records itself as lastStatus in the stage state file
PlanRecordSkip(p) ==
    /\ ex[p].pc = "plan"
    /\ LET key == IF cfg.idem
                  THEN ComputeIdempotencyKey(env.inputs, env.proc, env.params)
                  ELSE NoKey
           e == [ex[p] EXCEPT !.idem_key = key]
           skip == SkipDecision(cfg.idem, ex[p].stage_state.key, key, disk["marker"])
       IN /\ Upd(p, IF skip THEN Ended(e, "skipped") ELSE [e EXCEPT !.pc = "readcp"])
          /\ disk' = IF skip
                     THEN [StageAudit(disk, "skip", "[SKIP]") EXCEPT !["stage"] =
                             Doc(SaveStageState([ex[p].stage_state EXCEPT
                                                   !.lastStatus = "skipped"]))]
                     ELSE disk
    /\ UNCHANGED <<run, cfg, env, tmp, lockHolders, okKeys, lastOkKey, budget>>

\* idem_key = compute_idempotency_key(...) if idem_enabled else None; skip or go on
Plan(p) ==
    /\ ex[p].pc = "plan"
    /\ LET key == IF cfg.idem
                  THEN ComputeIdempotencyKey(env.inputs, env.proc, env.params)
                  ELSE NoKey
           e == [ex[p] EXCEPT !.idem_key = key]
           skip == SkipDecision(cfg.idem, ex[p].stage_state.key, key, disk["marker"])
       IN /\ Upd(p, IF skip THEN Ended(e, "skipped") ELSE [e EXCEPT !.pc = "readcp"])
          /\ disk' = IF skip THEN StageAudit(disk, "skip", "[SKIP]") ELSE disk
    /\ UNCHANGED <<run, cfg, env, tmp, lockHolders, okKeys, lastOkKey, budget>>

\* line_offset = read_checkpoint(name) if checkpoint enabled else 0; attempts = 0; status = "failed"
ReadCp(p) ==
    /\ ex[p].pc = "readcp"
    /\ Upd(p, [ex[p] EXCEPT !.pc = "loop",
                 !.line_offset = IF cfg.checkpoint THEN ReadCheckpoint(disk["progress"]) ELSE 0,
                 !.attempts = 0, !.status = "failed"])
    /\ UNCHANGED <<run, cfg, env, disk, tmp, lockHolders, okKeys, lastOkKey, budget>>

(***************************************************************************)
(* run_stage: the attempt loop                                             *)
(***************************************************************************)
\* while attempts < max_attempts: attempts += 1; audit start;
\* a missing processor raises FileNotFoundError inside the try block.
LoopHead(p) ==
    /\ ex[p].pc = "loop"
    /\ Upd(p, IF ex[p].attempts < cfg.maxAttempts
              THEN LET e == [ex[p] EXCEPT !.attempts = NextAttempt(@)]
                   IN IF ~env.proc.exists
                      THEN [e EXCEPT !.pc = "finally", !.raising = TRUE]
                      ELSE [e EXCEPT !.pc = IF cfg.useLock THEN "acquire" ELSE "spawn",
                                     !.waited = @ \/ (cfg.useLock /\ lockHolders \ {p} # {})]
              ELSE [ex[p] EXCEPT !.pc = "after"])
    /\ disk' = IF ex[p].attempts < cfg.maxAttempts THEN StageAudit(disk, "start", "Attempt")
               ELSE disk
    /\ UNCHANGED <<run, cfg, env, tmp, lockHolders, okKeys, lastOkKey, budget>>

\* FileLock.acquire: blocks until the exclusive lock is granted
Acquire(p) ==
    /\ ex[p].pc = "acquire"
    /\ CanLock(lockHolders)
    /\ lockHolders' = lockHolders \cup {p}
    /\ Upd(p, [ex[p] EXCEPT !.pc = "spawn"])
    /\ UNCHANGED <<run, cfg, env, disk, tmp, okKeys, lastOkKey, budget>>

\* FileLock.acquire on Windows: msvcrt.locking(LK_LOCK) gives up after its retries
\* and raises OSError, which leaves the try block of run_stage
AcquireTimeout(p) ==
    /\ ex[p].pc = "acquire"
    /\ cfg.os = "nt"
    /\ ~CanLock(lockHolders)
    /\ Upd(p, [ex[p] EXCEPT !.pc = "finally", !.raising = TRUE])
    /\ UNCHANGED <<run, cfg, env, disk, tmp, lockHolders, okKeys, lastOkKey, budget>>

\* _execute: subprocess.run([sys.executable, processor] + inputs, env=env)
\* The processor starts with PIPELINE_LINE_OFFSET = line_offset.
Spawn(p) ==
    /\ ex[p].pc = "spawn"
    /\ ex[p].invocations <= (IF cfg.maxAttempts > MaxAttemptsCfg THEN cfg.maxAttempts
                              ELSE MaxAttemptsCfg)
    /\ Upd(p, [ex[p] EXCEPT !.pc = "running", !.invocations = @ + 1,
                 !.poff = ex[p].line_offset, !.processed = 0, !.pphase = "loop",
                 !.pT = Head(env.inputs), !.cpAtSpawn = ReadCheckpoint(disk["progress"])])
    /\ UNCHANGED <<run, cfg, env, disk, tmp, lockHolders, okKeys, lastOkKey, budget>>

(***************************************************************************)
(* Open file handles.  A handle opened on "<path>.tmp" follows its inode:  *)
(* after somebody renames the tmp file onto the final path the handle      *)
(* writes into the final path; after a second rename it writes into a file *)
(* that no path names any more.                                            *)
(***************************************************************************)
Retarget(e, fam) ==
    IF e.aw.fam = fam /\ e.awAt = "tmp" THEN [e EXCEPT !.awAt = "final"]
    ELSE IF e.aw.fam = fam /\ e.awAt = "final" THEN [e EXCEPT !.awAt = "orphan"]
    ELSE e

(***************************************************************************)
(* The processor, src/bin/stage_upper.py                                   *)
(***************************************************************************)
\* save_progress(progress_path, line_offset): write "<path>.tmp", os.replace.
\* progress_path is state/progress_{stage_name}.json, the file read_checkpoint reads.
\* The open, write and rename of the processor are taken as one step.
SaveProgress(p, e, off) ==
    /\ disk' = [disk EXCEPT !["progress"] = Doc(WriteCheckpoint(off))]
    /\ tmp' = [tmp EXCEPT !["progress"] = Absent]
    /\ ex' = [q \in Procs |-> IF q = p THEN e ELSE Retarget(ex[q], "progress")]

\* "if not os.path.exists(input_file): ... sys.exit(3)"
ProcInputMissing(p) ==
    /\ ex[p].pc = "running"
    /\ ex[p].pT = Missing
    /\ Upd(p, [ex[p] EXCEPT !.pc = "exited", !.rc = InputMissingExit, !.pphase = "none"])
    /\ UNCHANGED <<run, cfg, env, disk, tmp, lockHolders, okKeys, lastOkKey, budget>>

\* the line loop up to its next "processed % 50 == 0": lines below line_offset are
\* passed over, then save_progress(progress_path, idx + 1)
ProcProgress(p) ==
    /\ ex[p].pc = "running"
    /\ ex[p].pphase = "loop"
    /\ ex[p].pT # Missing
    /\ ex[p].poff + ex[p].processed + ProgressEvery <= ex[p].pT
    /\ LET n == ex[p].processed + ProgressEvery
       IN SaveProgress(p, [ex[p] EXCEPT !.processed = n], ex[p].poff + n)
    /\ UNCHANGED <<run, cfg, env, lockHolders, okKeys, lastOkKey, budget>>

\* the loop has consumed the input: save_progress(progress_path, line_offset + processed)
ProcFinalProgress(p) ==
    /\ ex[p].pc = "running"
    /\ ex[p].pphase = "loop"
    /\ ex[p].pT # Missing
    /\ ~(ex[p].poff + ex[p].processed + ProgressEvery <= ex[p].pT)
    /\ LET n == IF ex[p].pT > ex[p].poff THEN ex[p].pT - ex[p].poff ELSE 0
       IN SaveProgress(p, [ex[p] EXCEPT !.processed = n, !.pphase = "saved"], ex[p].poff + n)
    /\ UNCHANGED <<run, cfg, env, lockHolders, okKeys, lastOkKey, budget>>

\* os.replace(output_tmp, output_file); the processor ends with exit code 0
ProcExitOk(p) ==
    /\ ex[p].pc = "running"
    /\ ex[p].pphase = "saved"
    /\ Upd(p, [ex[p] EXCEPT !.pc = "exited", !.rc = 0, !.pphase = "none",
                 !.poff = 0, !.processed = 0, !.pT = 0])
    /\ UNCHANGED <<run, cfg, env, disk, tmp, lockHolders, okKeys, lastOkKey, budget>>

\* an exception anywhere in the try block (an I/O error): sys.exit(4)
ProcError(p) ==
    /\ ex[p].pc = "running"
    /\ ex[p].pT # Missing
    /\ Upd(p, [ex[p] EXCEPT !.pc = "exited", !.rc = ErrorExit, !.pphase = "none",
                 !.poff = 0, !.processed = 0, !.pT = 0])
    /\ UNCHANGED <<run, cfg, env, disk, tmp, lockHolders, okKeys, lastOkKey, budget>>

(***************************************************************************)
(* run_stage: after the processor has exited                               *)
(***************************************************************************)
\* SIGINT while subprocess.run waits for the processor: KeyboardInterrupt is
\* raised in the executor, subprocess.run kills the child and re-raises,
\* FileLock.__exit__ releases the lock, and the exception goes on through the
\* finally clause of the attempt (attempt_info has no status yet)
Interrupt(p) ==
    /\ ex[p].pc = "running"
    /\ budget.disturb > 0
    /\ budget' = [budget EXCEPT !.disturb = @ - 1]
    /\ lockHolders' = lockHolders \ {p}
    /\ Upd(p, [ex[p] EXCEPT !.pc = "finally", !.raising = TRUE, !.pphase = "none",
                 !.poff = 0, !.processed = 0, !.pT = 0, !.cpAtSpawn = 0])
    /\ UNCHANGED <<run, cfg, env, disk, tmp, okKeys, lastOkKey>>

\* an exit of the with block that keeps the lock
ReleaseKeep(p) ==
    /\ ex[p].pc = "exited"
    /\ Upd(p, [ex[p] EXCEPT !.pc = "check"])
    /\ UNCHANGED <<run, cfg, env, disk, tmp, lockHolders, okKeys, lastOkKey, budget>>

\* FileLock.__exit__ -> release (nothing to release without useLock)
Release(p) ==
    /\ ex[p].pc = "exited"
    /\ lockHolders' = lockHolders \ {p}
    /\ Upd(p, [ex[p] EXCEPT !.pc = "check"])
    /\ UNCHANGED <<run, cfg, env, disk, tmp, okKeys, lastOkKey, budget>>

\* atomic_write_json / atomic_write_text start: the caller hands over path and content
BeginWrite(e, fam, v, next) ==
    [e EXCEPT !.pc = "aw_open", !.aw = [fam |-> fam, v |-> v], !.awNext = next]

\* a check that writes the completion marker whatever the exit code was
CheckMarkerAlways(p) ==
    /\ ex[p].pc = "check"
    /\ LET st == IF ex[p].rc # 0 THEN "failed" ELSE "ok"
       IN Upd(p, BeginWrite([ex[p] EXCEPT !.rc = 0, !.cpAtSpawn = 0,
                                          !.status = st, !.astatus = st],
                            "marker", 1, "cp"))
    /\ okKeys' = IF ex[p].rc # 0 THEN okKeys ELSE okKeys \cup {ex[p].idem_key}
    /\ UNCHANGED <<run, cfg, env, disk, tmp, lockHolders, lastOkKey, budget>>

\* a delay that doubles without the cap of maxDelaySeconds
BackoffDelayUncapped(attempts) == cfg.baseDelay * 2 ^ (attempts - 1)

\* delay = min(max_delay, base_delay * (2 ** (attempts - 1))), in whole seconds
\* (2 ** -1 is a half)
BackoffDelay(attempts) ==
    LET d == IF attempts >= 1 THEN cfg.baseDelay * 2 ^ (attempts - 1)
             ELSE cfg.baseDelay \div 2
    IN IF cfg.maxDelay < d THEN cfg.maxDelay ELSE d

\* "if should_retry(rc) and attempts < max_attempts: delay = ...; delay += rand.uniform(0,
\* jitter); time.sleep(delay); continue / else: break" -- j is the jitter drawn
Backoff(e, retry, j) ==
    IF retry
    THEN [e EXCEPT !.cont = "continue",
                   !.delay = [n |-> @.n + 1, base |-> BackoffDelay(e.attempts), jitter |-> j]]
    ELSE [e EXCEPT !.cont = "break"]

\* a success branch that goes on without writing the completion marker
CheckNoMarker(p) ==
    /\ ex[p].pc = "check"
    /\ LET e == [ex[p] EXCEPT !.rc = 0, !.cpAtSpawn = 0]
       IN IF ex[p].rc # 0
          THEN /\ \E j \in 0..cfg.jitter :
                    Upd(p, Backoff([e EXCEPT !.pc = "finally", !.astatus = "failed"],
                                   ShouldRetry(ex[p].attempts, ex[p].rc)
                                       /\ ex[p].attempts < cfg.maxAttempts, j))
               /\ okKeys' = okKeys
          ELSE /\ Upd(p, [e EXCEPT !.status = "ok", !.astatus = "ok", !.pc = "cp"])
               /\ okKeys' = okKeys \cup {ex[p].idem_key}
    /\ disk' = IF ex[p].rc # 0 THEN StageAudit(disk, "fail", "exit") ELSE disk
    /\ UNCHANGED <<run, cfg, env, tmp, lockHolders, lastOkKey, budget>>

\* "if proc.returncode != 0: ... continue / break" and "status = ok", up to the
\* call of atomic_write_text(output_marker, ...)
Check(p) ==
    /\ ex[p].pc = "check"
    /\ LET e == [ex[p] EXCEPT !.rc = 0, !.cpAtSpawn = 0]
       IN IF ex[p].rc # 0
          THEN /\ \E j \in 0..cfg.jitter :
                    Upd(p, Backoff([e EXCEPT !.pc = "finally", !.astatus = "failed"],
                                   ShouldRetry(ex[p].attempts, ex[p].rc)
                                       /\ ex[p].attempts < cfg.maxAttempts, j))
               /\ okKeys' = okKeys
          ELSE /\ Upd(p, BeginWrite([e EXCEPT !.status = "ok", !.astatus = "ok"],
                                    "marker", 1, "cp"))
               /\ okKeys' = okKeys \cup {ex[p].idem_key}
    /\ disk' = IF ex[p].rc # 0 THEN StageAudit(disk, "fail", "exit") ELSE disk
    /\ UNCHANGED <<run, cfg, env, tmp, lockHolders, lastOkKey, budget>>

\* where run_stage goes on after an atomic write; failed: os.replace raised
AfterWrite(e0, failed) ==
    LET e == [e0 EXCEPT !.aw = NoWrite, !.awAt = "none", !.awNext = "none"]
    IN CASE e0.awNext = "cp" ->
              IF failed THEN [e EXCEPT !.pc = "finally", !.raising = TRUE]
              ELSE [e EXCEPT !.pc = "cp"]
         [] e0.awNext = "cpdone" -> [e EXCEPT !.pc = "finally", !.cont = "break"]
         [] e0.awNext = "endfinally" ->
              IF failed \/ e.raising THEN Ended(e, "raised")
              ELSE IF e.cont = "continue"
                   THEN [e EXCEPT !.pc = "loop", !.astatus = "none"]
                   ELSE [e EXCEPT !.pc = "after", !.astatus = "none"]
         [] OTHER -> IF failed THEN Ended(e, "raised") ELSE Ended(e, e.status)

\* open(tmp, "w"): creates or truncates "<path>.tmp"
AwOpen(p) ==
    /\ ex[p].pc = "aw_open"
    /\ tmp' = [tmp EXCEPT ![ex[p].aw.fam] = Trunc]
    /\ Upd(p, [ex[p] EXCEPT !.pc = "aw_write", !.awAt = "tmp"])
    /\ UNCHANGED <<run, cfg, env, disk, lockHolders, okKeys, lastOkKey, budget>>

\* json.dump / f.write and the close of the handle
AwWrite(p) ==
    /\ ex[p].pc = "aw_write"
    /\ LET fam == ex[p].aw.fam
       IN /\ tmp' = IF ex[p].awAt = "tmp" THEN [tmp EXCEPT ![fam] = Doc(ex[p].aw.v)] ELSE tmp
          /\ disk' = IF ex[p].awAt = "final" THEN [disk EXCEPT ![fam] = Doc(ex[p].aw.v)] ELSE disk
    /\ Upd(p, [ex[p] EXCEPT !.pc = "aw_replace", !.awAt = "none"])
    /\ UNCHANGED <<run, cfg, env, lockHolders, okKeys, lastOkKey, budget>>

\* a last step that copies "<path>.tmp" onto the path and leaves it behind
AwReplaceCopy(p) ==
    /\ ex[p].pc = "aw_replace"
    /\ disk' = [disk EXCEPT ![ex[p].aw.fam] = tmp[ex[p].aw.fam]]
    /\ Upd(p, AfterWrite(ex[p], FALSE))
    /\ UNCHANGED <<run, cfg, env, tmp, lockHolders, okKeys, lastOkKey, budget>>

\* os.replace(tmp, path): FileNotFoundError when "<path>.tmp" is gone.  After the last
\* save of run_stage: audit "fail" or "done", and the return.
AwReplace(p) ==
    /\ ex[p].pc = "aw_replace"
    /\ LET fam == ex[p].aw.fam
       IN IF tmp[fam].st = "absent"
          THEN /\ Upd(p, AfterWrite(ex[p], TRUE))
               /\ UNCHANGED <<disk, tmp>>
          ELSE /\ disk' = LET d == [disk EXCEPT ![fam] = tmp[fam]]
                          IN IF ex[p].awNext # "ret" THEN d
                             ELSE IF ex[p].status = "ok" THEN StageAudit(d, "done", "Duration")
                             ELSE StageAudit(d, "fail", "error")
               /\ tmp' = [tmp EXCEPT ![fam] = Absent]
               /\ ex' = [q \in Procs |-> IF q = p THEN AfterWrite(ex[p], FALSE)
                                         ELSE Retarget(ex[q], fam)]
    /\ UNCHANGED <<run, cfg, env, lockHolders, okKeys, lastOkKey, budget>>

\* a success branch without its "break": the loop goes round again
CpUpdateNoBreak(p) ==
    /\ ex[p].pc = "cp"
    /\ Upd(p, [ex[p] EXCEPT !.pc = "finally", !.cont = "continue"])
    /\ UNCHANGED <<run, cfg, env, disk, tmp, lockHolders, okKeys, lastOkKey, budget>>

\* "Update checkpoint if enabled": re-read the progress file, write_checkpoint;
\* any exception in there is swallowed
CpUpdate(p) ==
    /\ ex[p].pc = "cp"
    /\ Upd(p, IF cfg.checkpoint /\ disk["progress"].st = "doc"
              THEN BeginWrite(ex[p], "progress",
                               WriteCheckpoint(ReadCheckpoint(disk["progress"])), "cpdone")
              ELSE [ex[p] EXCEPT !.pc = "finally", !.cont = "break"])
    /\ UNCHANGED <<run, cfg, env, disk, tmp, lockHolders, okKeys, lastOkKey, budget>>

\* finally: stage_state["history"].append(attempt_info); save_stage_state(...)
Finally(p) ==
    /\ ex[p].pc = "finally"
    /\ LET ss == [ex[p].stage_state EXCEPT
                    !.history = Append(@, [attempt |-> ex[p].attempts,
                                           status |-> ex[p].astatus])]
       IN Upd(p, BeginWrite([ex[p] EXCEPT !.stage_state = ss], "stage", SaveStageState(ss),
                             "endfinally"))
    /\ UNCHANGED <<run, cfg, env, disk, tmp, lockHolders, okKeys, lastOkKey, budget>>

\* a final update that leaves lastStatus and attempts as they were loaded
FinalStateStale(ss, status, attempts, idem_key) ==
    [ss EXCEPT !.key = IF cfg.idem THEN idem_key ELSE @]

\* a final update that never records the idempotency key
FinalStateNoKey(ss, status, attempts, idem_key) ==
    [ss EXCEPT !.lastStatus = status, !.attempts = attempts]

\* lastDurationSec, lastStatus, attempts and "if idem_enabled: idempotencyKey = idem_key"
FinalState(ss, status, attempts, idem_key) ==
    [ss EXCEPT !.lastStatus = status, !.attempts = attempts,
               !.key = IF cfg.idem THEN idem_key ELSE @]

\* after the loop: update stage_state and save_stage_state(name, stage_state)
AfterLoop(p) ==
    /\ ex[p].pc = "after"
    /\ LET ss == FinalState(ex[p].stage_state, ex[p].status, ex[p].attempts, ex[p].idem_key)
       IN Upd(p, BeginWrite([ex[p] EXCEPT !.stage_state = ss], "stage", SaveStageState(ss),
                             "ret"))
    /\ UNCHANGED <<run, cfg, env, disk, tmp, lockHolders, okKeys, lastOkKey, budget>>

\* the caller has the result of run_stage; the process is free for another run
Return(p) ==
    /\ ex[p].pc = "done"
    /\ Upd(p, IdleEx)
    /\ lastOkKey' = IF ex[p].result = "ok" /\ cfg.idem THEN ex[p].idem_key
                    ELSE IF ex[p].result = "skipped" THEN lastOkKey
                    ELSE NoKey
    /\ UNCHANGED <<run, cfg, env, disk, tmp, lockHolders, okKeys, budget>>

\* forced termination of the executor and of its child: handles are closed and the
\* flock is dropped by the operating system; files stay as they are
Crash(p) ==
    /\ ex[p].pc \notin {"idle", "done"}
    /\ budget.disturb > 0
    /\ budget' = [budget EXCEPT !.disturb = @ - 1]
    /\ Upd(p, IdleEx)
    /\ lockHolders' = lockHolders \ {p}
    /\ lastOkKey' = NoKey
    /\ UNCHANGED <<run, cfg, env, disk, tmp, okKeys>>

(***************************************************************************)
(* The world between runs                                                  *)
(***************************************************************************)
Quiet == \A p \in Procs : ex[p].pc = "idle"

Changed ==
    /\ Quiet
    /\ budget.disturb > 0
    /\ budget' = [budget EXCEPT !.disturb = @ - 1]
    /\ lastOkKey' = NoKey
    /\ UNCHANGED <<run, cfg, lockHolders, ex, okKeys>>

ChangeInput ==
    /\ Changed
    /\ \E k \in 1..Len(env.inputs) :
          \E i \in (InputSizes \cup {Missing}) \ {env.inputs[k]} :
              env' = [env EXCEPT !.inputs[k] = i]
    /\ UNCHANGED <<disk, tmp>>

ChangeParams ==
    /\ Changed
    /\ \E q \in ParamValues \ {env.params} : env' = [env EXCEPT !.params = q]
    /\ UNCHANGED <<disk, tmp>>

\* the processor file is rewritten: its modification time moves on
EditProcessor ==
    /\ Changed
    /\ \E src \in {CleanSource, SocketSource} :
          env' = [env EXCEPT !.proc = [exists |-> TRUE, mtime |-> env.proc.mtime + 1,
                                       source |-> src]]
    /\ UNCHANGED <<disk, tmp>>

RemoveProcessor ==
    /\ Changed
    /\ env.proc.exists
    /\ env' = [env EXCEPT !.proc.exists = FALSE]
    /\ UNCHANGED <<disk, tmp>>

\* the operator deletes the completion marker
OperatorDeleteMarker ==
    /\ Changed
    /\ Exists(disk["marker"])
    /\ disk' = [disk EXCEPT !["marker"] = Absent]
    /\ UNCHANGED <<env, tmp>>

\* the operator clears idempotencyKey in the stage state file
OperatorClearKey ==
    /\ Changed
    /\ StoredKey # NoKey
    /\ disk' = [disk EXCEPT !["stage"] =
                    Doc(SaveStageState([LoadStageStateDoc(disk["stage"].v) EXCEPT !.key = NoKey]))]
    /\ UNCHANGED <<env, tmp>>

(***************************************************************************)
(* Specifications                                                          *)
(***************************************************************************)
Stage(p) ==
    \/ Start(p) \/ LoadStageState(p) \/ EnforceOfflineGuard(p) \/ Plan(p) \/ ReadCp(p)
    \/ LoopHead(p) \/ Acquire(p) \/ Spawn(p)
    \/ ProcProgress(p) \/ ProcFinalProgress(p)
    \/ ProcExitOk(p) \/ ProcError(p)
    \/ Release(p) \/ Check(p) \/ AwOpen(p) \/ AwWrite(p) \/ AwReplace(p)
    \/ CpUpdate(p) \/ Finally(p) \/ AfterLoop(p) \/ Return(p) \/ Crash(p)

World ==
    \/ ChangeInput \/ ChangeParams \/ EditProcessor \/ RemoveProcessor
    \/ OperatorDeleteMarker \/ OperatorClearKey

\* one executor at a time, the world changing between its runs
Next == (\E p \in SeqProcs : Stage(p) \/ ProcInputMissing(p)) \/ World

Spec == Init /\ [][Next]_vars

\* the same executor with retry and checkpoint policies
RetryInit == InitWith(RetryConfigs, RetryExecs)
RetrySpec == RetryInit /\ [][Next]_vars

\* two executors on the same stage
ConcInit == InitWith(ConcConfigs, ConcExecs)
ConcNext == \E p \in Procs : Stage(p) \/ AcquireTimeout(p) \/ Interrupt(p)
ConcSpec == ConcInit /\ [][ConcNext]_vars

(***************************************************************************)
(* The idempotency key of a stage with several inputs                      *)
(***************************************************************************)
MaxInputs == 2       \* input paths listed by the stage of KeySpec
KeyExecs == 2        \* run_stage executions started in one behaviour of KeySpec

KeyConfigs ==
    [idem : {TRUE}, checkpoint : {FALSE}, useLock : {TRUE}, offlineGuard : {FALSE},
     maxAttempts : {1}, retryable : {{}}, os : {"posix"},
     baseDelay : {1}, maxDelay : {30}, jitter : {0}]

\* the stage lists its input paths in the other order
SwapInputs ==
    /\ Changed
    /\ Len(env.inputs) = 2
    /\ env.inputs[1] # env.inputs[2]
    /\ env' = [env EXCEPT !.inputs = <<env.inputs[2], env.inputs[1]>>]
    /\ UNCHANGED <<disk, tmp>>

KeyInit ==
    /\ cfg \in KeyConfigs
    /\ \E n \in 1..MaxInputs, q \in ParamValues :
          \E ins \in [1..n -> InputSizes] :
              env = [inputs |-> ins, params |-> q,
                     proc |-> [exists |-> TRUE, mtime |-> 1, source |-> CleanSource]]
    /\ disk = [f \in Families \cup RunFiles |-> Absent]
    /\ tmp = [f \in Families |-> Absent]
    /\ lockHolders = {}
    /\ ex = [p \in Procs |-> IdleEx]
    /\ okKeys = {}
    /\ lastOkKey = NoKey
    /\ budget = [execs |-> KeyExecs, disturb |-> MaxDisturb]
    /\ run = NoRun

KeyNext ==
    \/ \E p \in SeqProcs : Stage(p) \/ ProcInputMissing(p)
    \/ ChangeInput \/ ChangeParams \/ SwapInputs
KeySpec == KeyInit /\ [][KeyNext]_vars

(***************************************************************************)
(* Persistence by itself: save_stage_state / load_stage_state and          *)
(* write_checkpoint / read_checkpoint called on arbitrary values           *)
(***************************************************************************)
MaxHistory == 2      \* attempt records in the history of a stage state

AttemptRecords == [attempt : 1..MaxAttemptsCfg, status : {"none", "ok", "failed"}]
Histories == UNION {[1..n -> AttemptRecords] : n \in 0..MaxHistory}

\* the stage states run_stage can hold: lastStatus and attempts are set together
StageStates ==
    {ss \in [key : {NoKey, <<GetProcessorVersion([exists |-> TRUE, mtime |-> 1])>>},
             lastStatus : {"none", "ok", "failed"}, attempts : 0..MaxAttemptsCfg,
             history : Histories] :
        (ss.lastStatus = "none") <=> (ss.attempts = 0)}

LineOffsets == {0} \cup InputSizes

\* save_stage_state(name, stage_state): "<path>.tmp" is written and renamed
CallSaveStageState(p) ==
    /\ disk' = [disk EXCEPT !["stage"] = Doc(SaveStageState(ex[p].stage_state))]
    /\ tmp' = [tmp EXCEPT !["stage"] = Absent]
    /\ UNCHANGED <<run, cfg, env, lockHolders, ex, okKeys, lastOkKey, budget>>

\* stage_state = load_stage_state(name): {} when there is no file
CallLoadStageState(p) ==
    /\ disk["stage"].st # "trunc"
    /\ Upd(p, [ex[p] EXCEPT !.stage_state = IF disk["stage"].st = "doc"
                                             THEN LoadStageStateDoc(disk["stage"].v)
                                             ELSE EmptyState])
    /\ UNCHANGED <<run, cfg, env, disk, tmp, lockHolders, okKeys, lastOkKey, budget>>

\* write_checkpoint(name, line_offset)
CallWriteCheckpoint(p) ==
    /\ disk' = [disk EXCEPT !["progress"] = Doc(WriteCheckpoint(ex[p].line_offset))]
    /\ tmp' = [tmp EXCEPT !["progress"] = Absent]
    /\ UNCHANGED <<run, cfg, env, lockHolders, ex, okKeys, lastOkKey, budget>>

\* line_offset = read_checkpoint(name)
CallReadCheckpoint(p) ==
    /\ Upd(p, [ex[p] EXCEPT !.line_offset = ReadCheckpoint(disk["progress"])])
    /\ UNCHANGED <<run, cfg, env, disk, tmp, lockHolders, okKeys, lastOkKey, budget>>

JsonInit ==
    /\ cfg \in RetryConfigs
    /\ env = [inputs |-> <<ProgressEvery>>, params |-> 0,
              proc |-> [exists |-> TRUE, mtime |-> 1, source |-> CleanSource]]
    /\ disk = [f \in Families \cup RunFiles |-> Absent]
    /\ tmp = [f \in Families |-> Absent]
    /\ lockHolders = {}
    /\ \E ss \in StageStates, n \in LineOffsets :
          ex = [p \in Procs |-> IF p \in SeqProcs
                                THEN [IdleEx EXCEPT !.stage_state = ss, !.line_offset = n]
                                ELSE IdleEx]
    /\ okKeys = {}
    /\ lastOkKey = NoKey
    /\ budget = [execs |-> 0, disturb |-> 0]
    /\ run = NoRun

JsonNext ==
    \E p \in SeqProcs :
        \/ CallSaveStageState(p) \/ CallLoadStageState(p)
        \/ CallWriteCheckpoint(p) \/ CallReadCheckpoint(p)
JsonSpec == JsonInit /\ [][JsonNext]_vars

(***************************************************************************)
(* run_stage on processors with arbitrary import statements                *)
(***************************************************************************)
MaxImports == 2      \* import statements in a processor source
GuardExecs == 1      \* run_stage executions started in one behaviour of GuardSpec

\* import statements in each form, of modules inside and outside the banned list
ImportUniverse ==
    {Import(<<<<"os">>>>), Import(<<<<"socket">>>>), Import(<<<<"http", ".", "client">>>>),
     Import(<<<<"urllib", ".", "request">>>>), Import(<<<<"http", ".", "server">>>>),
     Import(<<<<"socket", "server">>>>), Import(<<<<"asyncio">>>>),
     Import(<<<<"http", "x">>>>), Import(<<<<"os">>, <<"aio", "http">>>>),
     ImportFrom(<<"os">>, <<<<"path">>>>), ImportFrom(<<"requests">>, <<<<"get">>>>),
     ImportFrom(<<"http">>, <<<<"client">>>>)}

Sources == UNION {[1..n -> ImportUniverse] : n \in 1..MaxImports}

GuardConfigs ==
    [idem : {TRUE}, checkpoint : {FALSE}, useLock : {TRUE}, offlineGuard : {TRUE},
     maxAttempts : {1}, retryable : {{}}, os : {"posix"},
     baseDelay : {1}, maxDelay : {30}, jitter : {0}]

GuardInit ==
    /\ cfg \in GuardConfigs
    /\ \E src \in Sources :
          env = [inputs |-> <<ProgressEvery>>, params |-> 0,
                 proc |-> [exists |-> TRUE, mtime |-> 1, source |-> src]]
    /\ disk = [f \in Families \cup RunFiles |-> Absent]
    /\ tmp = [f \in Families |-> Absent]
    /\ lockHolders = {}
    /\ ex = [p \in Procs |-> IdleEx]
    /\ okKeys = {}
    /\ lastOkKey = NoKey
    /\ budget = [execs |-> GuardExecs, disturb |-> MaxDisturb]
    /\ run = NoRun

GuardNext == \E p \in SeqProcs : Stage(p)
GuardSpec == GuardInit /\ [][GuardNext]_vars

(***************************************************************************)
(* run_stage under retry policies with different delays                    *)
(***************************************************************************)
BackoffAttempts == 4 \* largest retry.maxAttempts of BackoffSpec
BackoffExecs == 1    \* run_stage executions started in one behaviour of BackoffSpec

BackoffConfigs ==
    [idem : {TRUE}, checkpoint : {FALSE}, useLock : {TRUE}, offlineGuard : {FALSE},
     maxAttempts : 1..BackoffAttempts, retryable : {{}, {ErrorExit}}, os : {"posix"},
     baseDelay : {0, 1, 3}, maxDelay : {2, 5}, jitter : {0, 2}]

BackoffInit == InitWith(BackoffConfigs, BackoffExecs)
BackoffNext == (\E p \in SeqProcs : Stage(p) \/ ProcInputMissing(p)) \/ ChangeInput
BackoffSpec == BackoffInit /\ [][BackoffNext]_vars

(***************************************************************************)
(* audit_log called on its own                                            *)
(***************************************************************************)
MaxAudit == 3        \* entries appended in one behaviour of AuditSpec

AuditLog(event, len) ==
    /\ Len(AuditLines) < MaxAudit
    /\ disk' = [disk EXCEPT !["audit"] = AuditAppend(@, event, "", len)]
    /\ UNCHANGED <<run, cfg, env, tmp, lockHolders, ex, okKeys, lastOkKey, budget>>

AuditInit == InitWith(IdemConfigs, 0)
AuditNext == \E event \in AuditEvents, len \in LineLens : AuditLog(event, len)
AuditSpec == AuditInit /\ [][AuditNext]_vars

(***************************************************************************)
(* run_pipeline and main                                                   *)
(*                                                                         *)
(* The pipeline lists NStages stages with distinct names, all with the     *)
(* policies cfg.  budget.execs is the number of stages the for loop has    *)
(* still to hand to run_stage.  env, disk and tmp show the files of the    *)
(* stage the loop is at: when the loop moves on, the next stage's files    *)
(* come into view.                                                         *)
(***************************************************************************)
NStages == 2         \* stages listed in the pipeline of PipeSpec

ExitOk == 0          \* main returns: the interpreter exits with 0
ExitUncaught == 1    \* an exception leaves main: the interpreter exits with 1
                     \* (non-zero as well when it is a KeyboardInterrupt)

PipeConfigs ==
    [idem : {TRUE}, checkpoint : {FALSE}, useLock : {TRUE}, offlineGuard : BOOLEAN,
     maxAttempts : 1..MaxAttemptsCfg, retryable : {{}}, os : {"posix"},
     baseDelay : {1}, maxDelay : {30}, jitter : {0}]

\* what a stage can find: its input present or missing, its processor present,
\* importing a banned module, or missing
StageEnvs ==
    [inputs : {<<ProgressEvery>>, <<Missing>>}, params : {0},
     proc : {[exists |-> TRUE, mtime |-> 1, source |-> src] :
                src \in {CleanSource, SocketSource}}
            \cup {[exists |-> FALSE, mtime |-> 1, source |-> CleanSource]}]

\* the stage's files: a fresh working tree, or the files an earlier run left
\* when it completed the stage with the same inputs, processor and params
StageFiles(e, completedBefore) ==
    IF completedBefore
    THEN [f \in Families |->
            CASE f = "stage" ->
                   Doc(SaveStageState([EmptyState EXCEPT
                          !.key = ComputeIdempotencyKey(e.inputs, e.proc, e.params),
                          !.lastStatus = "ok", !.attempts = 1]))
              [] f = "marker" -> Doc(1)
              [] OTHER -> Absent]
    ELSE [f \in Families |-> Absent]

\* the for loop takes the next stage of the list
NextStageView ==
    \E e \in StageEnvs, b \in BOOLEAN :
        /\ env' = e
        /\ tmp' = [f \in Families |-> Absent]
        /\ \E files \in {StageFiles(e, b)} :
              disk' = [f \in DOMAIN disk |-> IF f \in Families THEN files[f] ELSE disk[f]]

\* save_run_state(run_id, run_state): atomic_write_json, taken as one step
SaveRunState(d, state) == [d EXCEPT !["run"] = Doc([state |-> state])]

\* metrics that take every result that is not "failed" for "ok"
AggregateMetricsOkRest(results) ==
    LET Count(st) == Cardinality({i \in 1..Len(results) : results[i] = st})
    IN Doc([totalStages |-> Len(results), failedStages |-> Count("failed"),
            skippedStages |-> Count("skipped"),
            okStages |-> Len(results) - Count("failed")])

\* aggregate_metrics(run_id, results)
AggregateMetrics(results) ==
    LET Count(st) == Cardinality({i \in 1..Len(results) : results[i] = st})
    IN Doc([totalStages |-> Len(results), failedStages |-> Count("failed"),
            skippedStages |-> Count("skipped"), okStages |-> Count("ok")])

\* a loop that goes on after a failed stage
LoopStateNoBreak(res, remaining) ==
    IF remaining = 0 THEN "completed" ELSE "running"

\* the for / else of run_pipeline: "failed" breaks with state "failed", the end of
\* the list gives "completed", otherwise the loop goes on
LoopState(res, remaining) ==
    IF res = "failed" THEN "failed"
    ELSE IF remaining = 0 THEN "completed"
    ELSE "running"

\* run_pipeline up to the for loop: audit run_start, RunState "running" saved
RunPipelineStart ==
    /\ run.pc = "init"
    /\ \E e \in StageEnvs, b \in BOOLEAN :
          /\ env' = e
          /\ disk' = [f \in DOMAIN disk |->
                        CASE f \in Families -> StageFiles(e, b)[f]
                          [] f = "run" -> Doc([state |-> "running"])
                          [] f = "audit" -> AuditAppend(disk[f], "run_start", "Pipeline", TailBytes - 1)
                          [] OTHER -> disk[f]]
    /\ run' = [run EXCEPT !.pc = "loop", !.state = "running"]
    /\ budget' = [budget EXCEPT !.execs = NStages]
    /\ UNCHANGED <<cfg, tmp, lockHolders, ex, okKeys, lastOkKey>>

\* res = run_stage(stage, run_id) has returned or raised:
\* results.append(res); "failed" breaks the loop, the end of the list completes it
StageResult(p) ==
    /\ run.pc = "loop"
    /\ ex[p].pc = "done"
    /\ Upd(p, IdleEx)
    /\ LET res == ex[p].result
       IN CASE res = "raised" ->
                 /\ run' = [run EXCEPT !.pc = "exited", !.exit = ExitUncaught]
                 /\ budget' = [budget EXCEPT !.execs = 0]
                 /\ UNCHANGED <<env, disk, tmp>>
            [] OTHER ->
                 LET state == LoopState(res, budget.execs)
                 IN IF state = "running"
                    THEN /\ run' = [run EXCEPT !.results = Append(@, res)]
                         /\ budget' = budget
                         /\ NextStageView
                    ELSE /\ run' = [run EXCEPT !.pc = "end", !.state = state,
                                              !.results = Append(@, res)]
                         /\ budget' = [budget EXCEPT !.execs = 0]
                         /\ UNCHANGED <<env, disk, tmp>>
    /\ UNCHANGED <<cfg, lockHolders, okKeys, lastOkKey>>

\* endedAt; save_run_state; aggregate_metrics; audit run_end; return run_state
RunPipelineEnd ==
    /\ run.pc = "end"
    /\ disk' = [SaveRunState(disk, run.state) EXCEPT
                  !["metrics"] = AggregateMetrics(run.results),
                  !["audit"] = AuditAppend(@, "run_end", run.state, TailBytes - 1)]
    /\ run' = [run EXCEPT !.pc = "returned"]
    /\ UNCHANGED <<cfg, env, tmp, lockHolders, ex, okKeys, lastOkKey, budget>>

\* main: run_pipeline(args.pipeline, args.run_id) has returned; main returns
MainExit ==
    /\ run.pc = "returned"
    /\ run' = [run EXCEPT !.pc = "exited", !.exit = ExitOk]
    /\ UNCHANGED <<cfg, env, disk, tmp, lockHolders, ex, okKeys, lastOkKey, budget>>

\* run_stage as run_pipeline calls it
PipeStage(p) ==
    \/ Start(p) \/ LoadStageState(p) \/ EnforceOfflineGuard(p) \/ Plan(p) \/ ReadCp(p)
    \/ LoopHead(p) \/ Acquire(p) \/ Spawn(p)
    \/ ProcInputMissing(p) \/ ProcProgress(p) \/ ProcFinalProgress(p)
    \/ ProcExitOk(p) \/ ProcError(p)
    \/ Release(p) \/ Check(p) \/ AwOpen(p) \/ AwWrite(p) \/ AwReplace(p)
    \/ CpUpdate(p) \/ Finally(p) \/ AfterLoop(p)

PipeInit == InitWith(PipeConfigs, 0)
PipeNext ==
    \/ RunPipelineStart
    \/ \E p \in SeqProcs : PipeStage(p) \/ StageResult(p) \/ Interrupt(p)
    \/ RunPipelineEnd
    \/ MainExit
PipeSpec == PipeInit /\ [][PipeNext]_vars

(***************************************************************************)
(* Properties                                                              *)
(***************************************************************************)
Done(p) == ex[p].pc = "done"

\* C1: run_stage returns "skipped" only if an earlier execution computed with the
\* same idempotency key ended with the processor exiting 0.
C1_SkipOnlyAfterSuccess ==
    \A p \in Procs : (Done(p) /\ ex[p].result = "skipped") => ex[p].idem_key \in okKeys

\* C2: an execution that ends "failed" leaves the persisted idempotencyKey as it
\* was when the execution started.
C2_FailedKeepsKey ==
    \A p \in Procs : (Done(p) /\ ex[p].result = "failed") => StoredKey = ex[p].pre.key

\* C3: run_stage skips, without invoking the processor, exactly when idempotency
\* is enabled, the key stored when it was entered equals the key of the inputs,
\* processor and params, and the completion marker exists; otherwise a run_stage
\* that returns a result has invoked the processor.
C3_SkipExactlyWhen ==
    \A p \in Procs :
        Done(p) =>
            /\ (ex[p].result = "skipped") <=>
                   (cfg.idem /\ ex[p].pre.key = ex[p].pre.fresh /\ ex[p].pre.marker)
            /\ ex[p].result = "skipped" => ex[p].invocations = 0
            /\ ex[p].result \in {"ok", "failed"} => ex[p].invocations >= 1

\* a stage was skipped
C3_Witness == \E p \in Procs : Done(p) /\ ex[p].result = "skipped"

\* C4: after an execution that ended "ok", with inputs, processor and params
\* unchanged since, every further execution of the idempotency-enabled stage is
\* "skipped" and invokes no processor.
C4_RepeatRunSkips ==
    \A p \in Procs :
        (Done(p) /\ cfg.idem /\ ex[p].pre.stable # NoKey) =>
            (ex[p].result = "skipped" /\ ex[p].invocations = 0)

\* the last of the runs ok, skipped, skipped
C4_Witness ==
    \E p \in Procs :
        /\ Done(p) /\ cfg.idem /\ ex[p].pre.stable # NoKey /\ ex[p].result = "skipped"
        /\ budget.execs <= MaxExecs - 3 /\ budget.disturb = MaxDisturb

\* C5: one run_stage execution invokes the processor at most retry.maxAttempts times.
C5_RetryBound == \A p \in Procs : ex[p].invocations <= cfg.maxAttempts

\* every configured attempt was used and failed
C5_Witness ==
    \E p \in Procs :
        /\ Done(p) /\ ex[p].result = "failed"
        /\ cfg.maxAttempts >= 2 /\ ex[p].invocations = cfg.maxAttempts

InFlight == {p \in Procs : ex[p].pc = "running"}

\* C6: at no time do two executors hold the stage lock and, with useLock, at most
\* one processor invocation of the stage is in flight.
C6_MutualExclusion ==
    /\ Cardinality(lockHolders) <= 1
    /\ cfg.useLock => Cardinality(InFlight) <= 1

\* one executor runs the processor under the lock while the other waits for the lock
C6_Witness ==
    \E p, q \in Procs :
        /\ p # q /\ cfg.useLock
        /\ ex[p].pc = "running" /\ lockHolders = {p} /\ ex[q].pc = "acquire"

\* C7: an executor that found the stage lock held by another process does not go
\* on to run the stage to "ok": its stage fails with LockUnavailable (no process
\* having been terminated by force, so the holder gave the lock up by itself).
C7_LockTimeoutFails ==
    \A p \in Procs :
        (Done(p) /\ ex[p].waited /\ budget.disturb = MaxDisturb) => ex[p].result # "ok"

\* C8: the final paths of the JSON files never hold a partial document.
C8_NoTornFile == \A f \in {"stage", "progress"} : disk[f].st # "trunc"

\* C9: the lineOffset persisted for a checkpoint-enabled stage never decreases.
C9_CheckpointMonotone ==
    [][cfg.checkpoint => ReadCheckpoint(disk'["progress"]) >= ReadCheckpoint(disk["progress"])]_vars

\* C10: when the processor has exited non-zero, the persisted lineOffset is what
\* it was when the processor was started.
C10_FailedAttemptKeepsCheckpoint ==
    \A p \in Procs :
        (ex[p].pc = "exited" /\ ex[p].rc # 0) =>
            ReadCheckpoint(disk["progress"]) = ex[p].cpAtSpawn

\* C11: in the audit file the first entry has an empty prevHash, every later
\* entry's prevHash is the stored hash of the entry before it, and every stored
\* hash is the hash of the entry's prevHash and body.
C11_AuditChain ==
    \A i \in 1..Len(AuditLines) :
        /\ AuditLines[i].prevHash = IF i = 1 THEN NoHash ELSE AuditLines[i - 1].hash
        /\ AuditLines[i].hash = ChainHash(AuditLines[i].prevHash, AuditLines[i].body)

RunReturned == run.pc = "returned" \/ (run.pc = "exited" /\ run.exit = ExitOk)
RunState == IF disk["run"].st = "doc" THEN disk["run"].v.state ELSE "none"

\* C12: stages are taken in list order (one result per stage handed to run_stage,
\* nothing left to hand over once the loop has ended); when run_pipeline has
\* returned, a "failed" result can only be the last one and then the persisted
\* state is "failed"; without a "failed" result every stage of the list has a
\* result "ok" or "skipped" and the persisted state is "completed".
C12_StopAtFirstFailure ==
    /\ run.pc \in {"end", "returned", "exited"} =>
           (budget.execs = 0 /\ \A p \in Procs : ex[p].pc = "idle")
    /\ run.pc = "loop" => Len(run.results) + budget.execs
                              + Cardinality({p \in Procs : ex[p].pc # "idle"}) = NStages
    /\ RunReturned =>
           LET res == run.results
               failedAt == {i \in 1..Len(res) : res[i] = "failed"}
           IN /\ failedAt \subseteq {Len(res)}
              /\ failedAt # {} => RunState = "failed"
              /\ failedAt = {} =>
                     /\ Len(res) = NStages
                     /\ \A i \in 1..Len(res) : res[i] \in {"ok", "skipped"}
                     /\ RunState = "completed"

\* the first stage failed and the second was never handed to run_stage
C12_Witness == RunReturned /\ run.results = <<"failed">> /\ RunState = "failed"

\* C13: the process exits with code 0 exactly when the run ended "completed".
C13_ExitCodeReflectsState ==
    run.pc = "exited" => (run.exit = ExitOk <=> RunState = "completed")

\* C14: once run_pipeline has terminated, by returning or by an exception, the
\* persisted RunState is not "running".
C14_NeverLeftRunning == run.pc \in {"returned", "exited"} => RunState # "running"

C16_MarkerOnlyAfterSuccess ==
    /\ [](\A p \in Procs :
            /\ ex[p].aw.fam = "marker" => (ex[p].status = "ok" /\ ex[p].invocations >= 1)
            /\ (Done(p) /\ ex[p].result = "ok") => Exists(disk["marker"])
            /\ (Done(p) /\ ex[p].result = "failed") =>
                   Exists(disk["marker"]) = ex[p].pre.marker)
    /\ [][(Exists(disk'["marker"]) /\ disk'["marker"] # disk["marker"]) =>
             \E p \in Procs : ex[p].aw.fam = "marker" /\ ex[p].status = "ok"]_vars

\* a second attempt succeeded after a failed first one and the marker is there
C16_Witness ==
    \E p \in Procs :
        /\ Done(p) /\ ex[p].result = "ok" /\ ex[p].invocations >= 2
        /\ Exists(disk["marker"]) /\ ~ex[p].pre.marker

RetryEligible(a, c) ==
    a < cfg.maxAttempts /\ (cfg.retryable = {} \/ c \in cfg.retryable)

\* C17: after attempt a has exited with a non-zero code c, the loop continues
\* exactly when a < maxAttempts and (retryableExitCodes is empty or contains c);
\* a loop that continues makes another attempt, and a stage that ended "failed"
\* short of maxAttempts did so on a non-empty retryableExitCodes.
C17_RetryEligibility ==
    /\ [][\A p \in Procs :
             (ex[p].pc = "check" /\ ex[p].rc # 0 /\ ex'[p].pc = "finally") =>
                 (ex'[p].cont = "continue" <=> RetryEligible(ex[p].attempts, ex[p].rc))]_vars
    /\ [](\A p \in Procs :
            /\ (ex[p].pc = "loop" /\ ex[p].attempts >= 1) => ex[p].attempts < cfg.maxAttempts
            /\ (Done(p) /\ ex[p].result = "failed") =>
                   /\ ex[p].invocations = ex[p].attempts
                   /\ ex[p].attempts = cfg.maxAttempts \/ cfg.retryable # {})

\* exit code 3 is outside retryableExitCodes = {4}: one invocation of two allowed
C17_Witness ==
    \E p \in Procs :
        /\ Done(p) /\ ex[p].result = "failed"
        /\ cfg.maxAttempts >= 2 /\ cfg.retryable # {} /\ ex[p].invocations = 1

\* C18: an exit code 0 sets the status "ok" (unless the executor is terminated by
\* force first); from then on the execution starts no
\* further attempt and invokes nothing more, and it ends by returning "ok" with
\* attempts equal to the number of invocations made, however many retried
\* failures came before.
C18_SuccessEndsRetries ==
    /\ [][\A p \in Procs :
             /\ (ex[p].pc = "check" /\ ex[p].rc = 0 /\ ex'[p].pc \notin {"check", "idle"}) =>
                    ex'[p].status = "ok"
             /\ (ex[p].status = "ok" /\ ex'[p].pc = "done") => ex'[p].result = "ok"]_vars
    /\ [](\A p \in Procs :
            /\ ex[p].status = "ok" =>
                   /\ ex[p].pc \in {"aw_open", "aw_write", "aw_replace", "cp", "finally", "after"}
                   /\ ex[p].invocations = ex[p].attempts
            /\ (Done(p) /\ ex[p].result = "ok") =>
                   (ex[p].invocations = ex[p].attempts /\ ex[p].attempts <= cfg.maxAttempts))

\* the first attempt failed, the second exited 0: "ok" with attempts = 2
C18_Witness ==
    \E p \in Procs :
        Done(p) /\ ex[p].result = "ok" /\ ex[p].attempts = 2 /\ ex[p].invocations = 2

StoredState == IF disk["stage"].st = "doc" THEN LoadStageStateDoc(disk["stage"].v) ELSE EmptyState

\* C19: when run_stage has returned "ok" or "failed", the stage state file holds
\* lastStatus equal to the returned status and attempts equal to the number of
\* processor invocations of this execution.
C19_StageStateMatchesResult ==
    [][\A p \in Procs :
         (~Done(p) /\ Done(p)' /\ ex'[p].result \in {"ok", "failed"}) =>
             /\ disk'["stage"].st = "doc"
             /\ StoredState'.lastStatus = ex'[p].result
             /\ StoredState'.attempts = ex'[p].invocations]_vars

\* two failed attempts, recorded as lastStatus "failed" with attempts 2
C19_Witness ==
    \E p \in Procs :
        /\ Done(p) /\ ex[p].result = "failed" /\ ex[p].invocations = 2
        /\ StoredState.lastStatus = "failed" /\ StoredState.attempts = 2

\* C20: when an execution has ended and no process was terminated by force, no
\* ".tmp" file is left next to the stage state file, the checkpoint or the marker.
C20_NoTmpResidue ==
    \A p \in Procs :
        (Done(p) /\ budget.disturb = MaxDisturb) => \A f \in Families : tmp[f] = Absent

\* a run with two attempts has written marker, checkpoint and stage state
C20_Witness ==
    \E p \in Procs :
        /\ Done(p) /\ budget.disturb = MaxDisturb /\ ex[p].result = "ok"
        /\ cfg.checkpoint /\ ex[p].invocations = 2
        /\ \A f \in Families : Exists(disk[f]) /\ tmp[f] = Absent

KeyOf(e) == ComputeIdempotencyKey(e.inputs, e.proc, e.params)

\* C21: the key computed in an execution is the key of the inputs, processor
\* and params it found (recomputing gives the same key); a change of the content
\* of an input, of the params, or of the order of inputs with different contents
\* changes the key; and an execution that finds a stored key different from the
\* key it computes is not skipped: it invokes the processor.
C21_KeySensitivity ==
    /\ [][env' # env => KeyOf(env') # KeyOf(env)]_vars
    /\ [](\A p \in Procs :
            /\ ex[p].idem_key # NoKey => ex[p].idem_key = ex[p].pre.fresh
            /\ (Done(p) /\ ex[p].pre.key # ex[p].pre.fresh) =>
                   /\ ex[p].result # "skipped"
                   /\ ex[p].result \in {"ok", "failed"} => ex[p].invocations >= 1)

\* a completed stage with two inputs is executed again after a change
C21_Witness ==
    \E p \in Procs :
        /\ Done(p) /\ ex[p].result = "ok" /\ ex[p].invocations = 1
        /\ Len(env.inputs) = 2 /\ ex[p].pre.marker
        /\ ex[p].pre.key # NoKey /\ ex[p].pre.key # ex[p].pre.fresh

Writing(p) == ex[p].pc \in {"aw_open", "aw_write", "aw_replace"}

\* C22: with useLock, an executor that is writing the stage state file, the
\* checkpoint or the marker holds the stage lock, so two executors are never
\* writing these files at the same time.
C22_WritesUnderLock ==
    cfg.useLock =>
        /\ \A p \in Procs : Writing(p) => p \in lockHolders
        /\ Cardinality({p \in Procs : Writing(p)}) <= 1

\* C23: when the run has terminated after an interrupt that arrived while a
\* processor was running, the stage state file says lastStatus "failed" and the
\* persisted RunState is "failed".
C23_InterruptRecordedFailed ==
    (run.pc = "exited" /\ budget.disturb < MaxDisturb) =>
        (StoredState.lastStatus = "failed" /\ RunState = "failed")

RECURSIVE CountStatus(_, _)
CountStatus(results, st) ==
    IF results = <<>> THEN 0
    ELSE (IF Head(results) = st THEN 1 ELSE 0) + CountStatus(Tail(results), st)

\* C24: the metrics file written for a run holds totalStages equal to the number
\* of stage results and okStages, skippedStages, failedStages equal to the number
\* of results of each status; the three sum to totalStages, failedStages is at
\* most 1 and a failed result is the last of the list.
C24_MetricsCounts ==
    disk["metrics"].st = "doc" =>
        LET m == disk["metrics"].v
            res == run.results
        IN /\ m.totalStages = Len(res)
           /\ m.okStages = CountStatus(res, "ok")
           /\ m.skippedStages = CountStatus(res, "skipped")
           /\ m.failedStages = CountStatus(res, "failed")
           /\ m.okStages + m.skippedStages + m.failedStages = m.totalStages
           /\ m.failedStages <= 1
           /\ \A i \in 1..Len(res) : res[i] = "failed" => i = Len(res)

\* metrics of a run whose first stage was skipped and whose second stage failed
C24_Witness ==
    /\ disk["metrics"].st = "doc"
    /\ run.results = <<"skipped", "failed">>
    /\ disk["metrics"].v.skippedStages = 1 /\ disk["metrics"].v.failedStages = 1

\* C25: a running processor was started with PIPELINE_LINE_OFFSET equal to the
\* lineOffset that the progress file held when it was started (0 without a
\* readable file), and with 0 when the stage has no checkpoint.
C25_OffsetIsPersistedCheckpoint ==
    \A p \in Procs :
        ex[p].pc = "running" =>
            ex[p].poff = IF cfg.checkpoint THEN ex[p].cpAtSpawn ELSE 0

\* C26: what load_stage_state returns after save_stage_state(name, S) is S, and what
\* read_checkpoint returns after write_checkpoint(name, n) is n: whenever the file
\* holds a saved document, reading it gives back the value that was saved (the one
\* the caller still holds), and a load or read after the save leaves it as it was.
C26_RoundTrip ==
    \A p \in SeqProcs :
        /\ disk["stage"].st = "doc" => LoadStageStateDoc(disk["stage"].v) = ex[p].stage_state
        /\ disk["progress"].st = "doc" => ReadCheckpoint(disk["progress"]) = ex[p].line_offset

C26_Witness ==
    /\ disk["stage"].st = "doc" /\ disk["progress"].st = "doc"
    /\ ex[1].stage_state.key # NoKey
    /\ Len(ex[1].stage_state.history) = MaxHistory
    /\ ex[1].stage_state.history[1].status = "none"
    /\ ex[1].stage_state.lastStatus = "failed"
    /\ ex[1].line_offset > 0

\* the newest record of the persisted history
LastRecord ==
    IF Len(StoredState.history) = 0 THEN [attempt |-> 0, status |-> "none"]
    ELSE StoredState.history[Len(StoredState.history)]

\* C27: when the processor is invoked for attempt k+1, and when run_stage returns or
\* raises after attempt k, the history in the stage state file ends with the record of
\* attempt k: its attempt number and its status.
C27_AttemptPersisted ==
    [][\A p \in Procs :
          /\ (ex[p].pc # "running" /\ ex'[p].pc = "running" /\ ex'[p].attempts >= 2) =>
                 (LastRecord'.attempt = ex'[p].attempts - 1
                  /\ LastRecord'.status \in {"ok", "failed"})
          /\ (~Done(p) /\ Done(p)' /\ ex'[p].attempts >= 1) =>
                 (LastRecord'.attempt = ex'[p].attempts
                  /\ LastRecord'.status \in {"ok", "failed"})]_vars

\* executor p renames "<path>.tmp" onto the file of family fam in this step
Persists(p, fam) ==
    /\ ex[p].pc = "aw_replace" /\ ex[p].aw.fam = fam
    /\ ex'[p].pc # "aw_replace" /\ ex'[p].pc # "idle"
    /\ disk'[fam] # disk[fam]

C29_LockReleasedOnExit ==
    /\ \A p \in Procs : p \in lockHolders => ex[p].pc \in {"spawn", "running", "exited"}
    /\ \A q \in Procs :
          (ex[q].pc = "acquire" /\ \A p \in Procs \ {q} : ex[p].pc \in {"idle", "done"}) =>
              CanLock(lockHolders)

C29_Witness ==
    /\ cfg.useLock
    /\ Done(1) /\ ex[1].result = "raised" /\ ex[1].invocations >= 1
    /\ budget.disturb < MaxDisturb
    /\ Done(2) /\ ex[2].result = "ok" /\ ex[2].waited
    /\ lockHolders = {}

\* the banned set as the specification lists it
BannedSet ==
    {<<"requests">>, <<"socket">>, <<"http", ".", "client">>, <<"urllib">>,
     <<"urllib", "3">>, <<"http", "x">>, <<"aio", "http">>}

\* module m is the module b or lies inside the package b
IsOrInside(m, b) ==
    /\ Len(b) <= Len(m) /\ SubSeq(m, 1, Len(b)) = b
    /\ (Len(m) = Len(b) \/ m[Len(b) + 1] = ".")

\* the modules an import statement brings in: "import m.x" brings in m.x (and with it
\* m); "from m import x" brings in m, and m.x when x is a submodule of m
BroughtIn(node) ==
    IF node.form = "import" THEN {node.names[i] : i \in 1..Len(node.names)}
    ELSE {node.module} \cup {node.module \o <<".">> \o node.names[i] : i \in 1..Len(node.names)}

BringsInBanned(source) ==
    \E i \in 1..Len(source) : \E m \in BroughtIn(source[i]) : \E b \in BannedSet :
        IsOrInside(m, b)

\* C30: with the offline guard on and the processor file present, the guard step of
\* run_stage ends the execution with the guard's error exactly when some import
\* statement of the processor brings in a module of the banned set, in any import
\* form; a processor that imports only other modules gets past the guard.
C30_GuardExact ==
    [][\A p \in Procs :
          (ex[p].pc = "guard" /\ ex'[p].pc \notin {"guard", "idle"}
           /\ cfg.offlineGuard /\ env.proc.exists) =>
              ((ex'[p].pc = "done" /\ ex'[p].result = "raised")
                  <=> BringsInBanned(env.proc.source))]_vars

\* executor p sleeps before a retry in this step
Sleeps(p) == ex'[p].delay.n = ex[p].delay.n + 1

\* C31: the sleep before retry attempt k+1 is min(maxDelaySeconds, baseDelaySeconds *
\* 2^(k-1)) plus a jitter between 0 and jitterSeconds; it is never longer than
\* maxDelaySeconds + jitterSeconds; its jitter-free part is at least that of the sleep
\* before; and a sleep happens only when a further attempt follows: never after
\* attempt maxAttempts, never after an exit code that is not retried.
C31_Backoff ==
    /\ [][\A p \in Procs :
            Sleeps(p) =>
                LET k == ex[p].attempts
                    d == ex'[p].delay
                    doubled == cfg.baseDelay * 2 ^ (k - 1)
                IN /\ d.base = (IF doubled > cfg.maxDelay THEN cfg.maxDelay ELSE doubled)
                   /\ d.jitter \in 0..cfg.jitter
                   /\ d.base + d.jitter <= cfg.maxDelay + cfg.jitter
                   /\ d.base >= ex[p].delay.base
                   /\ ex[p].delay.n = k - 1
                   /\ k < cfg.maxAttempts
                   /\ ex'[p].cont = "continue"]_vars
    /\ [][\A p \in Procs :
            (ex[p].pc = "check" /\ ex'[p].pc = "finally" /\ ~Sleeps(p)) =>
                (ex'[p].cont = "break" /\ ex'[p].delay = ex[p].delay)]_vars
    /\ [](\A p \in Procs : ex[p].delay.n <= ex[p].attempts
                           /\ (ex[p].pc = "running" => ex[p].delay.n = ex[p].attempts - 1))

C31_Witness ==
    /\ ex[1].delay.n = BackoffAttempts - 1
    /\ ex[1].delay.base = cfg.maxDelay /\ cfg.baseDelay = 1
    /\ ex[1].delay.jitter = cfg.jitter /\ cfg.jitter > 0
    /\ ex[1].pc = "running"

\* C32: once a run has passed validation the audit file begins with run_start, and
\* once run_pipeline has terminated (main has its result, or the process has ended)
\* the last entry is run_end and its message is the final state of the run.
C32_RunStartFirstRunEndLast ==
    /\ run.pc # "init" =>
           (Len(AuditLines) >= 1 /\ AuditLines[1].body.event = "run_start")
    /\ run.pc \in {"returned", "exited"} =>
           /\ AuditLines[Len(AuditLines)].body.event = "run_end"
           /\ AuditLines[Len(AuditLines)].body.message = RunState
           /\ RunState \in {"completed", "failed"}

\* executor p takes a step of the part of run_stage that ends in the skip decision
BeforeAttempts(p) ==
    /\ ex[p].pc \in {"idle", "load", "guard", "plan"}
    /\ ex'[p] # ex[p]
    /\ ex'[p].pc \in {"load", "guard", "plan", "done"}

\* C33: an execution that is skipped consists of the steps up to the skip decision, and
\* none of them starts a processor, takes the lock or changes the stage state file,
\* the checkpoint, the completion marker or a ".tmp" file; the only effect is the one
\* "skip" entry that the skip decision appends to the audit file.
C33_SkipHasNoEffect ==
    /\ [][\A p \in Procs :
            BeforeAttempts(p) =>
                /\ \A f \in Families : disk'[f] = disk[f] /\ tmp'[f] = tmp[f]
                /\ disk'["run"] = disk["run"] /\ disk'["metrics"] = disk["metrics"]
                /\ lockHolders' = lockHolders
                /\ IF ex'[p].pc = "done" /\ ex'[p].result = "skipped"
                   THEN /\ Len(AuditLines') = Len(AuditLines) + 1
                        /\ SubSeq(AuditLines', 1, Len(AuditLines)) = AuditLines
                        /\ AuditLines'[Len(AuditLines')].body.event = "skip"
                   ELSE AuditLines' = AuditLines]_vars
    /\ [](\A p \in Procs :
            (Done(p) /\ ex[p].result = "skipped") =>
                /\ ex[p].invocations = 0 /\ ex[p].attempts = 0 /\ ~ex[p].waited
                /\ p \notin lockHolders
                /\ StoredState.key = ex[p].idem_key /\ Exists(disk["marker"]))

C33_Witness ==
    /\ Done(1) /\ ex[1].result = "skipped"
    /\ StoredState.lastStatus = "ok" /\ StoredState.attempts = 1
    /\ Len(AuditLines) = 2 /\ AuditLines[2].body.event = "skip"

\* C34: the history in the stage state file only grows: whenever the file holds a
\* complete document before and after a step, every attempt record that was in it is
\* still there, unchanged and at the same place, also with two executors on the stage.
C34_HistoryAppendOnly ==
    [][(disk["stage"].st = "doc" /\ disk'["stage"].st = "doc") =>
           /\ Len(StoredState'.history) >= Len(StoredState.history)
           /\ SubSeq(StoredState'.history, 1, Len(StoredState.history))
                  = StoredState.history]_vars
====
